---- MODULE Spec2Model ----
(***************************************************************************)
(* A model of financialDataScraper.py: the pipeline driver main (fetch,    *)
(* normalise, value, render) and, separately, single calls of its          *)
(* functions parse_financial_data, estimate_growth_rate, calculate_dcf and *)
(* style_worksheet on inputs drawn from bounded sets.                      *)
(*                                                                         *)
(* Numbers.  Python floats and numpy float64 values are modelled as exact  *)
(* extended rationals: a finite value n/d in lowest terms, +inf, -inf or   *)
(* nan, each tagged with np (TRUE for a numpy.float64, FALSE for a plain   *)
(* Python float or int).  A true division by zero raises ZeroDivisionError *)
(* when both operands are plain Python numbers, and follows IEEE 754 (inf  *)
(* or nan, with a warning only) when either operand is a numpy.float64.    *)
(* Rounding is not modelled.                                               *)
(*                                                                         *)
(* Strings are sequences of one-character strings, so that Python's        *)
(* substring test (in) and len() are computed, not assumed.                *)
(***************************************************************************)
EXTENDS Integers, Sequences, FiniteSets, TLC

VARIABLES pc, ticker, financials, balance_sheet, cash_flow,
          parsed_financials, parsed_balance_sheet, parsed_cash_flow,
          growth_rate, dcf_value, wb, stdout, fault, call, ret

vars == <<pc, ticker, financials, balance_sheet, cash_flow,
          parsed_financials, parsed_balance_sheet, parsed_cash_flow,
          growth_rate, dcf_value, wb, stdout, fault, call, ret>>

(***************************************************************************)
(* Bounds of the model.                                                    *)
(***************************************************************************)
\* Largest number of reporting periods of a fetched statement.
MaxPeriods == 3
\* Largest number of line items of the fetched income statement.
MaxItems == 3
\* Largest length of the cash-flow list of a single calculate_dcf call.
MaxLen == 3
\* Largest years argument of a single calculate_dcf call.
MaxYears == 5
\* Largest number of columns of a sheet handed to a single style_worksheet call.
MaxCols == 2

(***************************************************************************)
(* Extended rational arithmetic.                                           *)
(***************************************************************************)
Abs(x) == IF x < 0 THEN -x ELSE x

RECURSIVE GCD(_, _)
GCD(a, b) == IF b = 0 THEN a ELSE GCD(b, a % b)

LCM(a, b) == (a \div GCD(a, b)) * b

\* The finite value n/d (d # 0) in lowest terms with a positive denominator.
Fin(n, d) ==
    LET g == GCD(Abs(n), Abs(d))
        s == IF d < 0 THEN -1 ELSE 1
    IN  [k |-> "fin", n |-> s * (n \div g), d |-> Abs(d) \div g, np |-> FALSE]

PosInf == [k |-> "inf", n |-> 1, d |-> 1, np |-> FALSE]
NegInf == [k |-> "inf", n |-> -1, d |-> 1, np |-> FALSE]
NaN == [k |-> "nan", n |-> 0, d |-> 1, np |-> FALSE]

\* numpy.float64(x)
AsNp(x) == [x EXCEPT !.np = TRUE]
\* The result of an operation on a and b is a numpy.float64 when either is.
Tag(x, a, b) == [x EXCEPT !.np = a.np \/ b.np]

Sign(x) == IF x.n > 0 THEN 1 ELSE IF x.n < 0 THEN -1 ELSE 0
Inf(s) == IF s > 0 THEN PosInf ELSE NegInf
IsNaN(x) == x.k = "nan"
IsFinite(x) == x.k = "fin"
IsZero(x) == x.k = "fin" /\ x.n = 0
\* Equality of the values of two numbers, whatever their Python types.
SameValue(a, b) == a.k = b.k /\ a.n = b.n /\ a.d = b.d
\* a < b for finite a and b.
Less(a, b) == a.n * b.d < b.n * a.d

FNeg(a) == [a EXCEPT !.n = -a.n]

FAdd(a, b) ==
    Tag(IF IsNaN(a) \/ IsNaN(b) THEN NaN
        ELSE IF a.k = "inf" /\ b.k = "inf"
             THEN (IF a.n = b.n THEN Inf(a.n) ELSE NaN)
        ELSE IF a.k = "inf" THEN Inf(a.n)
        ELSE IF b.k = "inf" THEN Inf(b.n)
        ELSE LET l == LCM(a.d, b.d)
             IN  Fin(a.n * (l \div a.d) + b.n * (l \div b.d), l),
        a, b)

FSub(a, b) == FAdd(a, FNeg(b))

FMul(a, b) ==
    Tag(IF IsNaN(a) \/ IsNaN(b) THEN NaN
        ELSE IF a.k = "inf" \/ b.k = "inf"
             THEN (IF Sign(a) * Sign(b) = 0 THEN NaN ELSE Inf(Sign(a) * Sign(b)))
        ELSE LET g1 == GCD(Abs(a.n), b.d)
                 g2 == GCD(Abs(b.n), a.d)
             IN  Fin((a.n \div g1) * (b.n \div g2), (a.d \div g2) * (b.d \div g1)),
        a, b)

\* Whether a / b raises ZeroDivisionError: a zero divisor and no numpy operand.
DivRaises(a, b) == IsZero(b) /\ ~(a.np \/ b.np)

\* a / b where it does not raise; a zero divisor is +0.0.
FDiv(a, b) ==
    Tag(IF IsNaN(a) \/ IsNaN(b) THEN NaN
        ELSE IF IsZero(b)
             THEN (IF Sign(a) = 0 THEN NaN ELSE Inf(Sign(a)))
        ELSE IF a.k = "inf" /\ b.k = "inf" THEN NaN
        ELSE IF a.k = "inf" THEN Inf(Sign(a) * Sign(b))
        ELSE IF b.k = "inf" THEN Fin(0, 1)
        ELSE FMul(a, Fin(b.d, b.n)),
        a, b)

\* a ** e for a finite a and an integer e >= 0.
RECURSIVE FPow(_, _)
FPow(a, e) == IF e = 0 THEN Tag(Fin(1, 1), a, a) ELSE FMul(a, FPow(a, e - 1))

One == Fin(1, 1)

(***************************************************************************)
(* Strings, as sequences of characters.                                    *)
(***************************************************************************)
\* "Year"
YearStr == <<"Y", "e", "a", "r">>
\* "Total Revenue"
TotalRevenue == <<"T", "o", "t", "a", "l", " ", "R", "e", "v", "e", "n", "u", "e">>
\* "Net Income"
NetIncome == <<"N", "e", "t", " ", "I", "n", "c", "o", "m", "e">>
\* "Operating Margin"
OperatingMargin == <<"O", "p", "e", "r", "a", "t", "i", "n", "g", " ", "M", "a", "r", "g", "i", "n">>
\* "Shares Outstanding"
SharesOutstanding == <<"S", "h", "a", "r", "e", "s", " ", "O", "u", "t", "s", "t", "a", "n", "d", "i", "n", "g">>
\* "Tax Rate"
TaxRate == <<"T", "a", "x", " ", "R", "a", "t", "e">>
\* "Net Income Margin"
NetIncomeMargin == <<"N", "e", "t", " ", "I", "n", "c", "o", "m", "e", " ", "M", "a", "r", "g", "i", "n">>
\* "total revenue"
LowerRevenue == <<"t", "o", "t", "a", "l", " ", "r", "e", "v", "e", "n", "u", "e">>
\* "Free Cash Flow"
FreeCashFlow == <<"F", "r", "e", "e", " ", "C", "a", "s", "h", " ", "F", "l", "o", "w">>
\* "Operating Cash Flow"
OperatingCashFlow == <<"O", "p", "e", "r", "a", "t", "i", "n", "g", " ", "C", "a", "s", "h", " ", "F", "l", "o", "w">>
\* "Total Assets"
TotalAssets == <<"T", "o", "t", "a", "l", " ", "A", "s", "s", "e", "t", "s">>
\* "Metric"
MetricStr == <<"M", "e", "t", "r", "i", "c">>
\* "Value"
ValueStr == <<"V", "a", "l", "u", "e">>
\* "DCF Value"
DCFValueStr == <<"D", "C", "F", " ", "V", "a", "l", "u", "e">>
\* "Ticker"
TickerStr == <<"T", "i", "c", "k", "e", "r">>
\* "Revenue"
Revenue == <<"R", "e", "v", "e", "n", "u", "e">>
\* "Income"
Income == <<"I", "n", "c", "o", "m", "e">>
\* "Margin"
Margin == <<"M", "a", "r", "g", "i", "n">>
\* "Rate"
Rate == <<"R", "a", "t", "e">>
\* "AAPL"
AAPL == <<"A", "A", "P", "L">>
\* "MSFT"
MSFT == <<"M", "S", "F", "T">>

\* Python's  needle in hay  for two strings.
Contains(needle, hay) ==
    \E i \in 1..(Len(hay) - Len(needle) + 1) :
        SubSeq(hay, i, i + Len(needle) - 1) = needle

(***************************************************************************)
(* Data frames.  A label is a string or a pandas Timestamp (of which only  *)
(* the year is kept); a frame is None, or an index, a column index and a   *)
(* matrix of numbers, values[i][j] belonging to index[i] and columns[j].   *)
(* A missing value is nan, as in pandas.                                   *)
(***************************************************************************)
StrLabel(s) == [t |-> "str", s |-> s, year |-> 0]
Timestamp(y) == [t |-> "date", s |-> <<>>, year |-> y]

Frame(index, columns, values) ==
    [none |-> FALSE, index |-> index, columns |-> columns, values |-> values]
NoneFrame == [none |-> TRUE, index |-> <<>>, columns |-> <<>>, values |-> <<>>]
EmptyFrame == Frame(<<>>, <<>>, <<>>)

\* DataFrame.empty: some axis has length 0.
IsEmpty(df) == Len(df.index) = 0 \/ Len(df.columns) = 0

\* DataFrame.T
Transpose(df) ==
    Frame(df.columns, df.index,
          [j \in 1..Len(df.columns) |->
              [i \in 1..Len(df.index) |-> df.values[i][j]]])

(***************************************************************************)
(* What the data source can return: statements whose rows are line items   *)
(* and whose columns are period-end dates, most recent first.              *)
(***************************************************************************)
Periods(R) == [j \in 1..R |-> Timestamp(2024 - j)]

Labels(items) == [i \in 1..Len(items) |-> StrLabel(items[i])]

FinancialItems ==
    <<TotalRevenue, NetIncome, OperatingMargin, SharesOutstanding, TaxRate>>

\* The income statement with the first K line items over R periods; the value
\* of item i in period j is 10 * i + j, so that no two cells agree.
FinancialsFrame(K, R) ==
    Frame(Labels(SubSeq(FinancialItems, 1, K)), Periods(R),
          [i \in 1..K |-> [j \in 1..R |-> Fin(10 * i + j, 1)]])

FinancialsFrames ==
    {EmptyFrame} \cup
    {FinancialsFrame(K, R) : K \in 1..MaxItems, R \in 1..MaxPeriods}

BalanceSheetFrames ==
    {EmptyFrame,
     Frame(Labels(<<TotalAssets>>), Periods(1), <<(<<Fin(7, 1)>>)>>)}

\* The free cash flows a period can report: missing, zero, 10 or 12.
FcfVals == {NaN, Fin(0, 1), Fin(10, 1), Fin(12, 1)}

\* The cash-flow statement whose 'Free Cash Flow' row is fcf.
CashFlowFrame(fcf) ==
    Frame(Labels(<<OperatingCashFlow, FreeCashFlow>>), Periods(Len(fcf)),
          <<[j \in 1..Len(fcf) |-> Fin(5, 1)], fcf>>)

\* A cash-flow statement that reports no 'Free Cash Flow' row.
NoFcfFrame ==
    Frame(Labels(<<OperatingCashFlow>>), Periods(1), <<(<<Fin(5, 1)>>)>>)

CashFlowFrames ==
    {EmptyFrame, NoFcfFrame} \cup
    UNION {{CashFlowFrame(fcf) : fcf \in [1..R -> FcfVals]} : R \in 1..MaxPeriods}

Tickers == {AAPL, MSFT}

(***************************************************************************)
(* parse_financial_data                                                    *)
(***************************************************************************)
NoneTriple(printed) ==
    [financials |-> NoneFrame, balance_sheet |-> NoneFrame,
     cash_flow |-> NoneFrame, printed |-> printed]

\* parse_financial_data, had it kept the statements already transposed when a
\* later one is missing.
parse_financial_data_partial(f, b, c) ==
    IF ~(~f.none /\ ~IsEmpty(f))
    THEN NoneTriple(<<"No financial data to parse.">>)
    ELSE IF ~(~b.none /\ ~IsEmpty(b))
    THEN [financials |-> Transpose(f), balance_sheet |-> NoneFrame,
          cash_flow |-> NoneFrame,
          printed |-> <<"No balance sheet data to parse.">>]
    ELSE IF ~(~c.none /\ ~IsEmpty(c))
    THEN [financials |-> Transpose(f), balance_sheet |-> Transpose(b),
          cash_flow |-> NoneFrame, printed |-> <<"No cash flow data to parse.">>]
    ELSE [financials |-> Transpose(f), balance_sheet |-> Transpose(b),
          cash_flow |-> Transpose(c), printed |-> <<>>]

\* The returned triple and the lines printed.
parse_financial_data(f, b, c) ==
    IF ~(~f.none /\ ~IsEmpty(f))
    THEN NoneTriple(<<"No financial data to parse.">>)
    ELSE IF ~(~b.none /\ ~IsEmpty(b))
    THEN NoneTriple(<<"No balance sheet data to parse.">>)
    ELSE IF ~(~c.none /\ ~IsEmpty(c))
    THEN NoneTriple(<<"No cash flow data to parse.">>)
    ELSE [financials |-> Transpose(f), balance_sheet |-> Transpose(b),
          cash_flow |-> Transpose(c), printed |-> <<>>]

(***************************************************************************)
(* estimate_growth_rate                                                    *)
(***************************************************************************)
\* A function's outcome: a returned number, or the exception it raised.
Return(x) == [exc |-> "none", val |-> x]
Raise(e) == [exc |-> e, val |-> NaN]

\* The default growth rate, the Python float 0.02.
DefaultGrowthRate == Fin(1, 50)

\* Whether the frame has a column labelled name.
HasColumn(df, name) == \E j \in 1..Len(df.columns) : df.columns[j] = StrLabel(name)

\* df.loc[:, name]: the values of the (first) column labelled name.
Column(df, name) ==
    LET j == CHOOSE j \in 1..Len(df.columns) :
                 /\ df.columns[j] = StrLabel(name)
                 /\ \A h \in 1..(j - 1) : df.columns[h] # StrLabel(name)
    IN  [i \in 1..Len(df.index) |-> df.values[i][j]]

\* Series.dropna()
RECURSIVE dropna(_)
dropna(s) ==
    IF Len(s) = 0 THEN <<>>
    ELSE IF IsNaN(Head(s)) THEN dropna(Tail(s))
    ELSE <<Head(s)>> \o dropna(Tail(s))

\* Series.pct_change(): nan first, then s[i] / s[i-1] - 1 in float64 arithmetic.
pct_change(s) ==
    [i \in 1..Len(s) |->
        IF i = 1 THEN AsNp(NaN)
        ELSE FSub(FDiv(AsNp(s[i]), AsNp(s[i - 1])), One)]

RECURSIVE Sum(_)
Sum(s) == IF Len(s) = 0 THEN Fin(0, 1) ELSE FAdd(Head(s), Sum(Tail(s)))

\* numpy.mean of a Series: nan when it is empty; a numpy.float64.
mean(s) ==
    IF Len(s) = 0 THEN AsNp(NaN) ELSE AsNp(FDiv(Sum(s), Fin(Len(s), 1)))

\* estimate_growth_rate, had it asked for one defined value instead of two.
estimate_growth_rate_one(cf) ==
    IF cf.none THEN Return(DefaultGrowthRate)
    ELSE IF ~HasColumn(cf, FreeCashFlow) THEN Raise("KeyError")
    ELSE LET free_cash_flows == dropna(Column(cf, FreeCashFlow))
         IN  IF Len(free_cash_flows) < 1 THEN Return(DefaultGrowthRate)
             ELSE LET growth_rates == dropna(pct_change(free_cash_flows))
                  IN  Return(mean(growth_rates))

estimate_growth_rate(cf) ==
    IF cf.none THEN Return(DefaultGrowthRate)
    ELSE IF ~HasColumn(cf, FreeCashFlow) THEN Raise("KeyError")
    ELSE LET free_cash_flows == dropna(Column(cf, FreeCashFlow))
         IN  IF Len(free_cash_flows) < 2 THEN Return(DefaultGrowthRate)
             ELSE LET growth_rates == dropna(pct_change(free_cash_flows))
                  IN  Return(mean(growth_rates))

(***************************************************************************)
(* calculate_dcf                                                           *)
(***************************************************************************)
\* The loop of lines 106-108 from index i (0-based) on, dcf being the sum so
\* far: the sum after the last index, or the exception a division raised.
RECURSIVE DcfLoop(_, _, _, _)
DcfLoop(free_cash_flows, discount_rate, i, dcf) ==
    IF i >= Len(free_cash_flows) THEN Return(dcf)
    ELSE LET den == FPow(FAdd(One, discount_rate), i + 1)
             cf == free_cash_flows[i + 1]
         IN  IF DivRaises(cf, den) THEN Raise("ZeroDivisionError")
             ELSE DcfLoop(free_cash_flows, discount_rate, i + 1,
                          FAdd(dcf, FDiv(cf, den)))

\* calculate_dcf, had it discounted the terminal value over the number of
\* cash flows instead of years.
calculate_dcf_by_length(free_cash_flows, discount_rate, growth, years) ==
    LET summed == DcfLoop(free_cash_flows, discount_rate, 0, Fin(0, 1))
    IN  IF summed.exc # "none" THEN summed
        ELSE IF Len(free_cash_flows) = 0 THEN Raise("IndexError")
        ELSE LET last == free_cash_flows[Len(free_cash_flows)]
                 num == FMul(last, FAdd(One, growth))
                 den == FSub(discount_rate, growth)
                 disc == FPow(FAdd(One, discount_rate), Len(free_cash_flows))
             IN  IF DivRaises(num, den) THEN Raise("ZeroDivisionError")
                 ELSE Return(FAdd(summed.val, FDiv(FDiv(num, den), disc)))

calculate_dcf(free_cash_flows, discount_rate, growth, years) ==
    LET summed == DcfLoop(free_cash_flows, discount_rate, 0, Fin(0, 1))
    IN  IF summed.exc # "none" THEN summed
        ELSE IF Len(free_cash_flows) = 0 THEN Raise("IndexError")
        ELSE LET last == free_cash_flows[Len(free_cash_flows)]
                 num == FMul(last, FAdd(One, growth))
                 den == FSub(discount_rate, growth)
                 disc == FPow(FAdd(One, discount_rate), years)
             IN  IF DivRaises(num, den) THEN Raise("ZeroDivisionError")
                 ELSE LET terminal_value == FDiv(num, den)
                      IN  IF DivRaises(terminal_value, disc)
                          THEN Raise("ZeroDivisionError")
                          ELSE Return(FAdd(summed.val, FDiv(terminal_value, disc)))

(***************************************************************************)
(* Worksheets.  A cell holds a value (a number, a string, a date or None)  *)
(* and its formatting: the named style and the number format it carries,   *)
(* and header, which stands for the bold font and centred alignment of     *)
(* lines 153-154.  Assigning a named style to a cell replaces the cell's   *)
(* whole formatting by the style's (openpyxl), its font and alignment      *)
(* included.  Column widths are left out: they are lengths of str() of     *)
(* floats, which exact rationals do not determine.                         *)
(***************************************************************************)
NumV(x) == [t |-> "num", x |-> x, s |-> <<>>]
StrV(s) == [t |-> "str", x |-> NaN, s |-> s]
NoneV == [t |-> "none", x |-> NaN, s |-> <<>>]
DateV(y) == [t |-> "date", x |-> Fin(y, 1), s |-> <<>>]
LabelV(l) == IF l.t = "str" THEN StrV(l.s) ELSE DateV(l.year)

\* isinstance(value, (int, float))
IsNumeric(v) == v.t = "num"

NewCell(v) ==
    [value |-> v, style |-> "Normal", number_format |-> "General",
     header |-> FALSE]

RECURSIVE MaxLength(_)
MaxLength(rows) ==
    IF Len(rows) = 0 THEN 0
    ELSE LET m == MaxLength(Tail(rows))
         IN  IF Len(Head(rows)) > m THEN Len(Head(rows)) ELSE m

\* A new sheet after the rows have been appended: a grid as wide as the
\* longest row, the cells no row reaches holding None.
Worksheet(title, rows) ==
    [title |-> title,
     cells |-> [r \in 1..Len(rows) |->
                   [c \in 1..MaxLength(rows) |->
                       IF c <= Len(rows[r]) THEN NewCell(rows[r][c])
                       ELSE NewCell(NoneV)]],
     chart |-> <<>>,
     conditional_formatting |-> <<>>]

\* Workbook(): no named style but the built-in one, no sheet written.
NoWorkbook == [named_styles |-> <<>>, sheets |-> <<>>, saved |-> FALSE]

\* A named style is a pair <<name, number format>>.
HasStyle(workbook, name) ==
    \E i \in 1..Len(workbook.named_styles) : workbook.named_styles[i][1] = name

add_named_style(workbook, name, number_format) ==
    IF HasStyle(workbook, name) THEN workbook
    ELSE [workbook EXCEPT !.named_styles = Append(@, <<name, number_format>>)]

create_styles(workbook) ==
    add_named_style(
        add_named_style(
            add_named_style(workbook, "currency", "$#,##0.00"),
            "percentage", "0.00%"),
        "general", "#,##0")

\* The number format of the workbook's named style name.
StyleFormat(workbook, name) ==
    LET i == CHOOSE i \in 1..Len(workbook.named_styles) :
                 workbook.named_styles[i][1] = name
    IN  workbook.named_styles[i][2]

\* The named style lines 163-168 choose for a numeric cell under header.
StyleName(header) ==
    IF Contains(Revenue, header) \/ Contains(Income, header) THEN "currency"
    ELSE IF Contains(Margin, header) \/ Contains(Rate, header) THEN "percentage"
    ELSE "general"

\* style_worksheet, had it read the header of column 1 for every cell.
style_worksheet_first_column(ws, workbook) ==
    LET cells == ws.cells
        nrows == Len(cells)
        ncols == IF nrows = 0 THEN 0 ELSE Len(cells[1])
        styled(r, c) ==
            LET cell == [cells[r][c] EXCEPT !.header = (c = 1 \/ r = 1)]
            IN  IF IsNumeric(cell.value)
                THEN LET name == StyleName(cells[1][1].value.s)
                     IN  [cell EXCEPT !.style = name,
                                      !.number_format = StyleFormat(workbook, name),
                                      !.header = FALSE]
                ELSE cell
    IN  IF \E r \in 1..nrows, c \in 1..ncols :
               IsNumeric(cells[r][c].value) /\ cells[1][1].value.t # "str"
        THEN [exc |-> "TypeError", ws |-> ws]
        ELSE [exc |-> "none",
              ws |-> [ws EXCEPT !.cells =
                         [r \in 1..nrows |-> [c \in 1..ncols |-> styled(r, c)]]]]

\* style_worksheet: the sheet as styled, or the TypeError of  'Revenue' in x
\* for a numeric cell whose column's first row holds no string.
style_worksheet(ws, workbook) ==
    LET cells == ws.cells
        nrows == Len(cells)
        ncols == IF nrows = 0 THEN 0 ELSE Len(cells[1])
        styled(r, c) ==
            LET cell == [cells[r][c] EXCEPT !.header = (c = 1 \/ r = 1)]
            IN  IF IsNumeric(cell.value)
                THEN LET name == StyleName(cells[1][c].value.s)
                     IN  [cell EXCEPT !.style = name,
                                      !.number_format = StyleFormat(workbook, name),
                                      !.header = FALSE]
                ELSE cell
    IN  IF \E r \in 1..nrows, c \in 1..ncols :
               IsNumeric(cells[r][c].value) /\ cells[1][c].value.t # "str"
        THEN [exc |-> "TypeError", ws |-> ws]
        ELSE [exc |-> "none",
              ws |-> [ws EXCEPT !.cells =
                         [r \in 1..nrows |-> [c \in 1..ncols |-> styled(r, c)]]]]

\* A chart reference: Reference(ws, min_col, min_row, max_col, max_row).
Reference(min_col, min_row, max_col, max_row) ==
    [min_col |-> min_col, min_row |-> min_row,
     max_col |-> max_col, max_row |-> max_row]

add_chart(ws, title, data_range, cats_range) ==
    [ws EXCEPT !.chart =
        Append(@, [title |-> title,
                   data |-> Reference(data_range[1], data_range[2],
                                      data_range[3], data_range[4]),
                   cats |-> Reference(cats_range[1], cats_range[2],
                                      cats_range[3], cats_range[4]),
                   anchor |-> "E5"])]

extract_year_from_date(date) ==
    IF date.t = "date" THEN NumV(Fin(date.year, 1)) ELSE NoneV

\* openpyxl's dataframe_to_rows(df, index=True, header=True): the column
\* labels after a None, the index names (one unnamed index), then each row
\* after its index label.
dataframe_to_rows(df) ==
    <<(<<NoneV>> \o [j \in 1..Len(df.columns) |-> LabelV(df.columns[j])])>>
    \o <<(<<NoneV>>)>>
    \o [i \in 1..Len(df.index) |->
           <<LabelV(df.index[i])>>
           \o [j \in 1..Len(df.columns) |-> NumV(df.values[i][j])]]

\* Lines 244-245: the frame with a 'Year' column added after its columns.
WithYear(df) ==
    [df EXCEPT
        !.columns = Append(@, StrLabel(YearStr)),
        !.values = [i \in 1..Len(df.index) |->
                       Append(df.values[i], extract_year_from_date(df.index[i]).x)]]

\* Lines 271-274 and 281-284: the first row as a header, a currency format on B2.
HeaderRowAndB2(ws) ==
    [ws EXCEPT !.cells =
        [r \in 1..Len(ws.cells) |-> [c \in 1..Len(ws.cells[r]) |->
            IF r = 1 THEN [ws.cells[r][c] EXCEPT !.header = TRUE]
            ELSE IF r = 2 /\ c = 2
                 THEN [ws.cells[r][c] EXCEPT !.number_format = "$#,##0.00"]
            ELSE ws.cells[r][c]]]]

\* save_to_excel: the workbook saved, or the exception a sheet's styling raised.
save_to_excel(financial_data, balance, cash, dcf, tick) ==
    LET wb0 == create_styles(NoWorkbook)
        withYear == WithYear(financial_data)
        nper == Len(withYear.index)
        ncol == Len(withYear.columns)
        header == <<StrV(YearStr)>>
                  \o Tail([j \in 1..ncol |-> LabelV(withYear.columns[j])])
        row(i) == <<extract_year_from_date(financial_data.index[i])>>
                  \o Tail([j \in 1..ncol |-> NumV(withYear.values[i][j])])
        s1 == style_worksheet(
                  Worksheet("Financial Data",
                            <<header>> \o [i \in 1..nper |-> row(i)]), wb0)
        ws1 == add_chart(s1.ws, "Revenue and Net Income",
                         <<2, 1, nper + 1, 3>>, <<2, 2, nper + 1, 2>>)
        s2 == style_worksheet(
                  Worksheet("Balance Sheet", dataframe_to_rows(balance)), wb0)
        s3 == style_worksheet(
                  Worksheet("Cash Flow", dataframe_to_rows(cash)), wb0)
        s4 == style_worksheet(
                  HeaderRowAndB2(
                      Worksheet("DCF Calculation",
                                <<(<<StrV(MetricStr), StrV(ValueStr)>>),
                                  (<<StrV(DCFValueStr), NumV(dcf)>>)>>)), wb0)
        s5 == style_worksheet(
                  HeaderRowAndB2(
                      Worksheet("Summary",
                                <<(<<StrV(TickerStr), StrV(tick)>>),
                                  (<<StrV(DCFValueStr), NumV(dcf)>>)>>)), wb0)
        ws5 == [s5.ws EXCEPT !.conditional_formatting =
                   Append(@, [range |-> "B2:B2", start_color |-> "FF0000",
                              end_color |-> "00FF00"])]
        styled == <<s1, s2, s3, s4, s5>>
    IN  IF \E i \in 1..5 : styled[i].exc # "none"
        THEN [exc |-> "TypeError", wb |-> NoWorkbook]
        ELSE [exc |-> "none",
              wb |-> [wb0 EXCEPT !.sheets = <<ws1, s2.ws, s3.ws, s4.ws, ws5>>,
                                 !.saved = TRUE]]


(***************************************************************************)
(* main, the pipeline driver.  pc is the stage the run is in: Fetching,    *)
(* Normalizing, Valuing, Rendering, then Done; Failed after a diagnostic;  *)
(* Crashed when an exception no handler catches has ended the process, in  *)
(* which case fault names it.                                              *)
(***************************************************************************)
\* discount_rate = 0.10
DiscountRate == Fin(1, 10)
\* years = 5
Years == 5

NoCall == [fn |-> "none"]
Pending == [fn |-> "none"]

\* The variables of the pipeline driver, before it starts.
DriverIdle ==
    /\ financials = NoneFrame
    /\ balance_sheet = NoneFrame
    /\ cash_flow = NoneFrame
    /\ parsed_financials = NoneFrame
    /\ parsed_balance_sheet = NoneFrame
    /\ parsed_cash_flow = NoneFrame
    /\ growth_rate = NaN
    /\ dcf_value = NaN
    /\ wb = NoWorkbook
    /\ stdout = <<>>
    /\ fault = "none"

driverVars == <<ticker, financials, balance_sheet, cash_flow,
                parsed_financials, parsed_balance_sheet, parsed_cash_flow,
                growth_rate, dcf_value, wb, stdout, fault>>

Init ==
    /\ pc = "Fetching"
    /\ ticker \in Tickers
    /\ DriverIdle
    /\ call = NoCall
    /\ ret = Pending

\* get_financial_data, then the test of line 303.  The data source either
\* raises, which get_financial_data turns into (None, None, None), or yields
\* three frames, any of which may be empty.
Fetch ==
    /\ pc = "Fetching"
    /\ \E raised \in BOOLEAN, f \in FinancialsFrames, b \in BalanceSheetFrames,
          c \in CashFlowFrames :
          LET got == IF raised THEN <<NoneFrame, NoneFrame, NoneFrame>>
                     ELSE <<f, b, c>>
              printed == IF raised THEN <<"Failed to retrieve data for ticker">>
                         ELSE <<>>
          IN  /\ raised => (f = EmptyFrame /\ b = EmptyFrame /\ c = EmptyFrame)
              /\ financials' = got[1]
              /\ balance_sheet' = got[2]
              /\ cash_flow' = got[3]
              /\ IF ~got[1].none /\ ~got[2].none /\ ~got[3].none
                 THEN /\ pc' = "Normalizing"
                      /\ stdout' = stdout \o printed
                 ELSE /\ pc' = "Failed"
                      /\ stdout' = stdout \o printed
                                   \o <<"Failed to retrieve financial data.">>
    /\ UNCHANGED <<ticker, parsed_financials, parsed_balance_sheet,
                   parsed_cash_flow, growth_rate, dcf_value, wb, fault,
                   call, ret>>

\* parse_financial_data, then the test of line 306, which here lets every
\* outcome through.
Normalize_unchecked ==
    /\ pc = "Normalizing"
    /\ LET parsed == parse_financial_data(financials, balance_sheet, cash_flow)
       IN  /\ parsed_financials' = parsed.financials
           /\ parsed_balance_sheet' = parsed.balance_sheet
           /\ parsed_cash_flow' = parsed.cash_flow
           /\ pc' = "Valuing"
           /\ stdout' = stdout \o parsed.printed
    /\ UNCHANGED <<ticker, financials, balance_sheet, cash_flow, growth_rate,
                   dcf_value, wb, fault, call, ret>>

\* parse_financial_data, then the test of line 306.
Normalize ==
    /\ pc = "Normalizing"
    /\ LET parsed == parse_financial_data(financials, balance_sheet, cash_flow)
       IN  /\ parsed_financials' = parsed.financials
           /\ parsed_balance_sheet' = parsed.balance_sheet
           /\ parsed_cash_flow' = parsed.cash_flow
           /\ IF /\ ~parsed.financials.none
                 /\ ~parsed.balance_sheet.none
                 /\ ~parsed.cash_flow.none
              THEN /\ pc' = "Valuing"
                   /\ stdout' = stdout \o parsed.printed
              ELSE /\ pc' = "Failed"
                   /\ stdout' = stdout \o parsed.printed
                                \o <<"Failed to parse financial data.">>
    /\ UNCHANGED <<ticker, financials, balance_sheet, cash_flow, growth_rate,
                   dcf_value, wb, fault, call, ret>>

\* Lines 307-312: estimate_growth_rate, the list of defined free cash flows
\* (plain Python floats), calculate_dcf.
Value ==
    /\ pc = "Valuing"
    /\ LET g == estimate_growth_rate(parsed_cash_flow)
       IN  IF g.exc # "none"
           THEN /\ pc' = "Crashed"
                /\ fault' = g.exc
                /\ UNCHANGED <<growth_rate, dcf_value>>
           ELSE LET free_cash_flows ==
                        dropna(Column(parsed_cash_flow, FreeCashFlow))
                    dcf == calculate_dcf(free_cash_flows, DiscountRate,
                                         g.val, Years)
                IN  /\ growth_rate' = g.val
                    /\ IF dcf.exc # "none"
                       THEN /\ pc' = "Crashed"
                            /\ fault' = dcf.exc
                            /\ UNCHANGED dcf_value
                       ELSE /\ pc' = "Rendering"
                            /\ dcf_value' = dcf.val
                            /\ UNCHANGED fault
    /\ UNCHANGED <<ticker, financials, balance_sheet, cash_flow,
                   parsed_financials, parsed_balance_sheet, parsed_cash_flow,
                   wb, stdout, call, ret>>

\* Lines 314-315: save_to_excel, which also adds the 'Year' column to the
\* caller's frame, then the DCF value is printed.
Render ==
    /\ pc = "Rendering"
    /\ LET saved == save_to_excel(parsed_financials, parsed_balance_sheet,
                                  parsed_cash_flow, dcf_value, ticker)
       IN  /\ parsed_financials' = WithYear(parsed_financials)
           /\ IF saved.exc # "none"
              THEN /\ pc' = "Crashed"
                   /\ fault' = saved.exc
                   /\ UNCHANGED <<wb, stdout>>
              ELSE /\ pc' = "Done"
                   /\ wb' = saved.wb
                   /\ stdout' = Append(stdout, "DCF Value for")
                   /\ UNCHANGED fault
    /\ UNCHANGED <<ticker, financials, balance_sheet, cash_flow,
                   parsed_balance_sheet, parsed_cash_flow, growth_rate,
                   dcf_value, call, ret>>

Next == Fetch \/ Normalize \/ Value \/ Render

Spec == Init /\ [][Next]_vars

(***************************************************************************)
(* Single calls.  call holds a function's name and arguments, ret its      *)
(* result once it has returned (or raised).                                *)
(***************************************************************************)
\* Arguments of the single calls of parse_financial_data.
ParseArgFrames ==
    {NoneFrame, EmptyFrame,
     Frame(Labels(<<TotalRevenue>>), <<>>, <<(<<>>)>>),
     FinancialsFrame(1, 1), FinancialsFrame(2, 2),
     CashFlowFrame(<<Fin(10, 1), Fin(12, 1)>>)}

\* Arguments of the single calls of estimate_growth_rate: None, or a
\* normalised cash-flow statement.
GrowthArgFrames == {NoneFrame} \cup {Transpose(c) : c \in CashFlowFrames}

\* Arguments of the single calls of calculate_dcf.
CfVals == {Fin(-3, 1), Fin(0, 1), Fin(100, 1)}
DiscountRates == {Fin(1, 10), Fin(1, 2)}
GrowthRates ==
    LET rates == {Fin(-1, 2), Fin(1, 50), Fin(1, 10), Fin(1, 2)}
    IN  rates \cup {AsNp(r) : r \in rates}
CashFlowLists == UNION {[1..n -> CfVals] : n \in 0..MaxLen}

\* Arguments of the single calls of style_worksheet: a row of headers over a
\* row of cells, in a workbook whose styles create_styles has made.
StyleHeaders ==
    {TotalRevenue, NetIncome, OperatingMargin, TaxRate, SharesOutstanding,
     NetIncomeMargin, LowerRevenue, YearStr}
StyleValues == {NumV(Fin(5, 1)), NumV(NaN), StrV(AAPL), NoneV}
\* The sheet with headers h over one row of values v.
StyleSheet(h, v) ==
    Worksheet("Sheet", <<[c \in 1..Len(h) |-> StrV(h[c])], v>>)

InitCalls ==
    /\ pc = "call"
    /\ ticker = AAPL
    /\ DriverIdle
    /\ ret = Pending
    /\ \/ \E f \in ParseArgFrames, b \in ParseArgFrames, c \in ParseArgFrames :
            call = [fn |-> "parse_financial_data", financials |-> f,
                    balance_sheet |-> b, cash_flow |-> c]
       \/ \E c \in GrowthArgFrames :
            call = [fn |-> "estimate_growth_rate", cash_flow |-> c]
       \/ \E cfs \in CashFlowLists, d \in DiscountRates, g \in GrowthRates,
             y \in 0..MaxYears :
            call = [fn |-> "calculate_dcf", free_cash_flows |-> cfs,
                    discount_rate |-> d, growth_rate |-> g, years |-> y]
       \/ \E n \in 1..MaxCols :
            \E h \in [1..n -> StyleHeaders], v \in [1..n -> StyleValues] :
                call = [fn |-> "style_worksheet", ws |-> StyleSheet(h, v),
                        wb |-> create_styles(NoWorkbook)]

CallParse ==
    /\ pc = "call"
    /\ call.fn = "parse_financial_data"
    /\ ret' = [fn |-> call.fn,
               result |-> parse_financial_data(call.financials,
                                               call.balance_sheet,
                                               call.cash_flow)]
    /\ pc' = "returned"
    /\ UNCHANGED <<driverVars, call>>

CallGrowth ==
    /\ pc = "call"
    /\ call.fn = "estimate_growth_rate"
    /\ ret' = [fn |-> call.fn, result |-> estimate_growth_rate(call.cash_flow)]
    /\ pc' = "returned"
    /\ UNCHANGED <<driverVars, call>>

CallDcf ==
    /\ pc = "call"
    /\ call.fn = "calculate_dcf"
    /\ ret' = [fn |-> call.fn,
               result |-> calculate_dcf(call.free_cash_flows, call.discount_rate,
                                        call.growth_rate, call.years)]
    /\ pc' = "returned"
    /\ UNCHANGED <<driverVars, call>>

CallStyle ==
    /\ pc = "call"
    /\ call.fn = "style_worksheet"
    /\ ret' = [fn |-> call.fn, result |-> style_worksheet(call.ws, call.wb)]
    /\ pc' = "returned"
    /\ UNCHANGED <<driverVars, call>>

NextCalls == CallParse \/ CallGrowth \/ CallDcf \/ CallStyle

SpecCalls == InitCalls /\ [][NextCalls]_vars

(***************************************************************************)
(* Properties of the single calls.                                         *)
(***************************************************************************)
\* A statement that is absent or empty.
Missing(df) == df.none \/ Len(df.index) = 0 \/ Len(df.columns) = 0

\* t is df with rows and columns exchanged.
IsTransposeOf(t, df) ==
    /\ ~t.none
    /\ t.index = df.columns
    /\ t.columns = df.index
    /\ \A i \in 1..Len(df.index) : \A j \in 1..Len(df.columns) :
           t.values[j][i] = df.values[i][j]

\* C1: parse_financial_data is all-or-nothing.  When any of the three
\* statements is None or empty it returns (None, None, None), never a triple
\* in which some statements are transposed and others are not; when all three
\* are present and non-empty it returns the three transposed statements.
C1_AllOrNothing ==
    ret.fn = "parse_financial_data" =>
        LET r == ret.result
        IN  IF \/ Missing(call.financials)
               \/ Missing(call.balance_sheet)
               \/ Missing(call.cash_flow)
            THEN /\ r.financials.none
                 /\ r.balance_sheet.none
                 /\ r.cash_flow.none
            ELSE /\ IsTransposeOf(r.financials, call.financials)
                 /\ IsTransposeOf(r.balance_sheet, call.balance_sheet)
                 /\ IsTransposeOf(r.cash_flow, call.cash_flow)

\* C1's case: the financials are present, the balance sheet is empty, and the
\* call has returned the failure triple.
C1_Witness ==
    /\ ret.fn = "parse_financial_data"
    /\ ~Missing(call.financials)
    /\ ~call.balance_sheet.none /\ IsEmpty(call.balance_sheet)
    /\ ~Missing(call.cash_flow)
    /\ ret.result.financials.none
    /\ ret.result.printed = <<"No balance sheet data to parse.">>

\* The number of defined (non-nan) values of the frame's 'Free Cash Flow' column.
DefinedCount(cf) ==
    LET col == Column(cf, FreeCashFlow)
    IN  Cardinality({i \in 1..Len(col) : ~IsNaN(col[i])})

\* C4: estimate_growth_rate returns exactly the default 0.02 whenever the
\* cash-flow statement is None or its 'Free Cash Flow' column has fewer than 2
\* defined values (none included), and returns a computed mean (a
\* numpy.float64) only when the column has at least 2 defined values.
C4_DefaultBelowTwo ==
    (/\ ret.fn = "estimate_growth_rate"
     /\ (call.cash_flow.none \/ HasColumn(call.cash_flow, FreeCashFlow))) =>
        LET few == call.cash_flow.none \/ DefinedCount(call.cash_flow) < 2
        IN  /\ ret.result.exc = "none"
            /\ few => ret.result.val = Fin(1, 50)
            /\ ~few => ret.result.val.np

\* C4's case: three periods, none with a defined free cash flow, and the
\* default has been returned.
C4_Witness ==
    /\ ret.fn = "estimate_growth_rate"
    /\ ~call.cash_flow.none
    /\ HasColumn(call.cash_flow, FreeCashFlow)
    /\ Len(call.cash_flow.index) = 3
    /\ DefinedCount(call.cash_flow) = 0
    /\ ret.result.val = Fin(1, 50)

\* cash_flows[1]/(1+d)^1 + ... + cash_flows[N]/(1+d)^N
RECURSIVE DiscountedSum(_, _, _)
DiscountedSum(cash_flows, d, N) ==
    IF N = 0 THEN Fin(0, 1)
    ELSE FAdd(DiscountedSum(cash_flows, d, N - 1),
              FDiv(cash_flows[N], FPow(FAdd(One, d), N)))

\* C5: for a cash-flow list of length N >= 1 and discount_rate > growth_rate,
\* calculate_dcf returns the sum over i = 1..N of cash_flows[i]/(1+d)^i plus
\* (cash_flows[N]*(1+g)/(d-g))/(1+d)^years: the terminal value is taken from
\* the last element and discounted over years, whatever N is.
C5_DcfFormula ==
    (/\ ret.fn = "calculate_dcf"
     /\ Len(call.free_cash_flows) >= 1
     /\ Less(call.growth_rate, call.discount_rate)) =>
        LET cfs == call.free_cash_flows
            d == call.discount_rate
            g == call.growth_rate
            N == Len(cfs)
            terminal == FDiv(FMul(cfs[N], FAdd(One, g)), FSub(d, g))
        IN  /\ ret.result.exc = "none"
            /\ SameValue(ret.result.val,
                         FAdd(DiscountedSum(cfs, d, N),
                              FDiv(terminal, FPow(FAdd(One, d), call.years))))

\* C5's case: calculate_dcf([100], 0.10, 0.02, 5) has returned
\* 100/1.10 + (100*1.02/0.08)/1.10^5 = 142141000/161051.
C5_Witness ==
    /\ ret.fn = "calculate_dcf"
    /\ call.free_cash_flows = <<Fin(100, 1)>>
    /\ call.discount_rate = Fin(1, 10)
    /\ call.growth_rate = Fin(1, 50)
    /\ call.years = 5
    /\ ret.result = Return(Fin(142141000, 161051))

\* The sum of (v[i] - v[i-1]) / v[i-1] over the i in 2..n with v[i-1] # 0.
RECURSIVE SumOfDefinedChanges(_, _)
SumOfDefinedChanges(v, n) ==
    IF n < 2 THEN Fin(0, 1)
    ELSE IF IsZero(v[n - 1]) THEN SumOfDefinedChanges(v, n - 1)
    ELSE FAdd(SumOfDefinedChanges(v, n - 1),
              FDiv(FSub(v[n], v[n - 1]), v[n - 1]))

\* C10: for a 'Free Cash Flow' column with at least 2 defined values,
\* estimate_growth_rate returns the mean of the changes (v[i]-v[i-1])/v[i-1]
\* of consecutive defined values v, every change with v[i-1] = 0 being dropped
\* before the mean is taken, so that such a pair neither contributes to the
\* rate nor makes it non-finite.  (Stated where at least one change is left.)
C10_ZeroPredecessorDropped ==
    (/\ ret.fn = "estimate_growth_rate"
     /\ ~call.cash_flow.none
     /\ HasColumn(call.cash_flow, FreeCashFlow)
     /\ DefinedCount(call.cash_flow) >= 2) =>
        LET v == dropna(Column(call.cash_flow, FreeCashFlow))
            kept == {i \in 2..Len(v) : ~IsZero(v[i - 1])}
        IN  kept # {} =>
                /\ IsFinite(ret.result.val)
                /\ SameValue(ret.result.val,
                             FDiv(SumOfDefinedChanges(v, Len(v)),
                                  Fin(Cardinality(kept), 1)))

\* The number format the claim gives a numeric cell under header.
ClaimedFormat(header) ==
    IF Contains(Revenue, header) \/ Contains(Income, header) THEN "$#,##0.00"
    ELSE IF Contains(Margin, header) \/ Contains(Rate, header) THEN "0.00%"
    ELSE "#,##0"

\* C7: after style_worksheet every numeric cell carries the format chosen from
\* the header (row 1) of its own column: currency if the header contains
\* 'Revenue' or 'Income', otherwise percentage if it contains 'Margin' or
\* 'Rate', otherwise the plain grouped integer; so 'Operating Margin' gives
\* percentage, 'Total Revenue' currency, 'Shares Outstanding' plain, a header
\* matching both groups currency; a non-numeric cell gets no numeric format.
C7_FormatFromOwnHeader ==
    ret.fn = "style_worksheet" =>
        LET before == call.ws.cells
            after == ret.result.ws.cells
        IN  /\ ret.result.exc = "none"
            /\ \A r \in 1..Len(before) : \A c \in 1..Len(before[r]) :
                   LET h == before[1][c].value.s
                       fmt == after[r][c].number_format
                   IN  /\ after[r][c].value = before[r][c].value
                       /\ IF IsNumeric(before[r][c].value)
                          THEN /\ fmt = ClaimedFormat(h)
                               /\ h = OperatingMargin => fmt = "0.00%"
                               /\ h = TotalRevenue => fmt = "$#,##0.00"
                               /\ h = SharesOutstanding => fmt = "#,##0"
                               /\ h = NetIncomeMargin => fmt = "$#,##0.00"
                          ELSE /\ fmt = "General"
                               /\ after[r][c].style = "Normal"

\* C7's case: a styled sheet with a numeric cell under 'Operating Margin' in
\* percentage format beside one under 'Net Income Margin' in currency format.
C7_Witness ==
    /\ ret.fn = "style_worksheet"
    /\ LET after == ret.result.ws.cells
       IN  \E c1, c2 \in 1..Len(after[1]) :
               /\ after[1][c1].value = StrV(OperatingMargin)
               /\ IsNumeric(after[2][c1].value)
               /\ after[2][c1].number_format = "0.00%"
               /\ after[1][c2].value = StrV(NetIncomeMargin)
               /\ IsNumeric(after[2][c2].value)
               /\ after[2][c2].number_format = "$#,##0.00"

(***************************************************************************)
(* Properties of the pipeline driver.                                      *)
(***************************************************************************)
\* The fetch has signalled failure: some statement came back as None.
FetchFailed ==
    pc # "Fetching" /\ (financials.none \/ balance_sheet.none \/ cash_flow.none)

\* Normalisation has failed: it has run and some statement was absent or empty.
NormalizeFailed ==
    /\ pc \notin {"Fetching", "Normalizing"}
    /\ ~FetchFailed
    /\ (Missing(financials) \/ Missing(balance_sheet) \/ Missing(cash_flow))

\* C2: the renderer is invoked, and a report written, only after the fetch and
\* the normalisation have succeeded for all three statements; when the fetch
\* signals failure or normalisation fails, the driver prints a diagnostic and
\* ends without entering Valuing or Rendering and without a report.
C2_RenderOnlyAfterSuccess ==
    /\ (pc \in {"Valuing", "Rendering", "Done"} \/ wb.saved) =>
           /\ ~Missing(financials) /\ ~Missing(balance_sheet) /\ ~Missing(cash_flow)
           /\ ~parsed_financials.none
           /\ IsTransposeOf(parsed_balance_sheet, balance_sheet)
           /\ IsTransposeOf(parsed_cash_flow, cash_flow)
    /\ FetchFailed =>
           /\ pc = "Failed"
           /\ ~wb.saved
           /\ stdout[Len(stdout)] = "Failed to retrieve financial data."
    /\ NormalizeFailed =>
           /\ pc = "Failed"
           /\ ~wb.saved
           /\ stdout[Len(stdout)] = "Failed to parse financial data."

\* C2's case: the fetch succeeded, the balance sheet was empty, and the run
\* has ended Failed with the diagnostic and no report.
C2_Witness ==
    /\ pc = "Failed"
    /\ ~Missing(financials)
    /\ ~balance_sheet.none /\ IsEmpty(balance_sheet)
    /\ ~Missing(cash_flow)
    /\ stdout = <<"No balance sheet data to parse.",
                  "Failed to parse financial data.">>
    /\ ~wb.saved

\* Normalisation has succeeded.
Normalized == pc \in {"Valuing", "Rendering", "Done", "Crashed"}

\* C3: insufficient free-cash-flow history never aborts the pipeline.  Once the
\* fetch and the normalisation have succeeded and the 'Free Cash Flow' column
\* has fewer than 2 defined values (none included), the run is in Valuing or
\* Rendering or has reached Done with a report; it has not stopped abnormally.
C3_ShortHistoryNeverAborts ==
    (/\ Normalized
     /\ HasColumn(parsed_cash_flow, FreeCashFlow)
     /\ DefinedCount(parsed_cash_flow) < 2) =>
        /\ pc \in {"Valuing", "Rendering", "Done"}
        /\ pc = "Done" => wb.saved

\* C6: a discount rate not above the growth rate (equal or smaller) is never
\* turned into a DCF value.  Once calculate_dcf has been called with
\* discount_rate <= growth_rate, the run has crashed with an arithmetic fault,
\* no report has been rendered and no DCF value printed.
C6_RateNotAboveGrowthIsFatal ==
    (/\ pc \in {"Rendering", "Done"} \/ (pc = "Crashed" /\ fault # "KeyError")
     /\ IsFinite(growth_rate)
     /\ ~Less(growth_rate, DiscountRate)) =>
        /\ pc = "Crashed"
        /\ fault = "ZeroDivisionError"
        /\ ~wb.saved
        /\ stdout = <<>>

\* The sheet's rows of values.
Values(ws) ==
    [r \in 1..Len(ws.cells) |->
        [c \in 1..Len(ws.cells[r]) |-> ws.cells[r][c].value]]

\* C8: the Financial Data sheet's header row is 'Year' followed by every line
\* item c1..cK of the statement in order, and the row of each period, in the
\* statement's order, is the period's year followed by its values of c1..cK:
\* no line-item column is lost or duplicated.
C8_YearThenEveryLineItem ==
    wb.saved =>
        LET K == Len(financials.index)
            R == Len(financials.columns)
            rows == Values(wb.sheets[1])
        IN  /\ Len(rows) = R + 1
            /\ rows[1] = <<StrV(YearStr)>>
                         \o [i \in 1..K |-> StrV(financials.index[i].s)]
            /\ \A j \in 1..R :
                   rows[j + 1] = <<NumV(Fin(financials.columns[j].year, 1))>>
                                 \o [i \in 1..K |-> NumV(financials.values[i][j])]

\* C9: the chart of the Financial Data sheet takes its data from columns 2..3
\* over the header row and all R data rows (rows 1..R+1), and its categories
\* from the years column (column 1) over the R data rows (rows 2..R+1).
C9_ChartReferences ==
    wb.saved =>
        LET R == Len(financials.columns)
            chart == wb.sheets[1].chart
        IN  /\ Len(chart) = 1
            /\ chart[1].data = Reference(2, 1, 3, R + 1)
            /\ chart[1].cats = Reference(1, 2, 1, R + 1)
====
